---------------------------- MODULE Spec2Model ----------------------------
(***************************************************************************)
(* A model of utils.py: the unit conversions (md2vect, vect2md, rh2q),     *)
(* Ship.parse_headers, Ship.add_attributes, Ship.process_data and          *)
(* Buoy.parse_data.  Each operation is a small state machine over its own  *)
(* variables; each has a specification of its own (SpecHdr, SpecBuoy,      *)
(* SpecShip, SpecWind, SpecRh) that starts from the inputs the operation   *)
(* can be called with and leaves the other operations idle.                *)
(*                                                                         *)
(* Text is a sequence of characters (one-character strings; a word such as *)
(* "desc" stands for a run of letters that holds no separator and no       *)
(* blank).  Numbers are fixed point, the unit given where they are used.   *)
(***************************************************************************)
EXTENDS Integers, Sequences, FiniteSets, TLC

VARIABLES
    \* Ship.parse_headers / Ship.add_attributes
    file,        \* the lines of the header file, as readlines() minus "\n"
    hdr,         \* the non-empty lines (line 236)
    n,           \* the loop index of line 240 (0-based)
    headers,     \* [bound, val]: the local `headers`, unbound until n = 1
    attributes,  \* the list of attribute records
    annotated,   \* add_attributes: column name -> attrs set on it
    hpc,         \* "open" | "loop" | "returned" | "annotated" | "raised"
    hexc,        \* the exception raised ("" when none)
    \* Buoy.parse_data
    filepaths,   \* the input files, each a sequence of lines
    fileIdx,     \* how many files have been read
    file_df_list,\* one parsed table (sequence of rows) per file read
    metbk,       \* the returned table
    bpc,         \* "read" | "returned" | "raised"
    \* Ship.process_data
    df0,         \* the table process_data was called with
    df,          \* the table being processed: column -> [dtype, cells]
    spc,         \* the statement process_data is at
    sexc,        \* the exception raised ("" when none)
    \* md2vect / vect2md
    wspd0, wdir0,\* the inputs of md2vect
    vx, vy,      \* the north and east components
    wspd, wdir,  \* the outputs of vect2md
    wpc,         \* "md2vect" | "vect2md" | "done"
    \* rh2q
    atmp, bpr, hrh, sflag,  \* the arguments
    esBuck,      \* es after line 125
    es,          \* es after line 128
    e,           \* e after lines 131-133
    q,           \* the result
    rpc          \* "buck" | "reduce" | "vapor" | "humidity" | "done"

hvars == <<file, hdr, n, headers, attributes, annotated, hpc, hexc>>
bvars == <<filepaths, fileIdx, file_df_list, metbk, bpc>>
svars == <<df0, df, spc, sexc>>
wvars == <<wspd0, wdir0, vx, vy, wspd, wdir, wpc>>
rvars == <<atmp, bpr, hrh, sflag, esBuck, es, e, q, rpc>>
vars == <<hvars, bvars, svars, wvars, rvars>>

\* what each operation leaves alone: the other operations' variables
notH == <<bvars, svars, wvars, rvars>>
notB == <<hvars, svars, wvars, rvars>>
notS == <<hvars, bvars, wvars, rvars>>
notW == <<hvars, bvars, svars, rvars>>
notR == <<hvars, bvars, svars, wvars>>

(***************************************************************************)
(* Sequence helpers.                                                        *)
(***************************************************************************)
RECURSIVE SeqsUpTo(_, _)
SeqsUpTo(S, k) ==
    IF k = 0 THEN {<<>>}
    ELSE LET shorter == SeqsUpTo(S, k - 1)
         IN  shorter \cup {Append(s, x) : s \in shorter, x \in S}

(***************************************************************************)
(* Python's str.split(sep) and str.strip() on character sequences.          *)
(***************************************************************************)
RECURSIVE SplitAcc(_, _, _, _)
SplitAcc(s, sep, cur, acc) ==
    IF s = <<>> THEN Append(acc, cur)
    ELSE IF Head(s) = sep
         THEN SplitAcc(Tail(s), sep, <<>>, Append(acc, cur))
         ELSE SplitAcc(Tail(s), sep, Append(cur, Head(s)), acc)

Split(s, sep) == SplitAcc(s, sep, <<>>, <<>>)

RECURSIVE LStrip(_)
LStrip(s) == IF s # <<>> /\ Head(s) = " " THEN LStrip(Tail(s)) ELSE s

RECURSIVE RStrip(_)
RStrip(s) ==
    IF s # <<>> /\ s[Len(s)] = " " THEN RStrip(SubSeq(s, 1, Len(s) - 1)) ELSE s

Strip(s) == LStrip(RStrip(s))

StripAll(parts) == [i \in DOMAIN parts |-> Strip(parts[i])]

(***************************************************************************)
(* Ship.parse_headers (lines 215-261) and Ship.add_attributes (264-292).    *)
(***************************************************************************)
MaxHdrLines == 4

TitleLine == <<"title">>
ColLine   == <<"A", ",", "B", ",", "C">>
\* "A - desc A - units A"
Line3     == <<"A", " ", "-", " ", "desc", " ", "A", " ", "-", " ", "units", " ", "A">>
\* "B - desc B"
Line2     == <<"B", " ", "-", " ", "desc", " ", "B">>
\* "C": no hyphen at all
Line1     == <<"C">>
\* "C - air-temp - degC": a hyphen inside the description
Line4     == <<"C", " ", "-", " ", "air", "-", "temp", " ", "-", " ", "degC">>
BlankLine == <<>>

HdrLines == {TitleLine, ColLine, Line3, Line2, Line1, Line4, BlankLine}

\* The columns of the table add_attributes is given.
DataColumns == {<<"A">>, <<"C">>}

NoHeaders == [bound |-> FALSE, val |-> <<>>]

HInit ==
    /\ file \in SeqsUpTo(HdrLines, MaxHdrLines)
    /\ hdr = <<>>
    /\ n = 0
    /\ headers = NoHeaders
    /\ attributes = <<>>
    /\ annotated = <<>>
    /\ hpc = "open"
    /\ hexc = ""

HIdle ==
    /\ file = <<>>
    /\ hdr = <<>>
    /\ n = 0
    /\ headers = NoHeaders
    /\ attributes = <<>>
    /\ annotated = <<>>
    /\ hpc = "idle"
    /\ hexc = ""

\* lines 233-236: read the lines, keep the non-empty ones
NonEmpty(h) == Len(h) > 0

HdrOpen ==
    /\ hpc = "open"
    /\ hdr' = SelectSeq(file, NonEmpty)
    /\ hpc' = "loop"
    /\ UNCHANGED <<file, n, headers, attributes, annotated, hexc, notH>>

\* lines 253-258: what one attribute line adds to `attributes`; the append
\* of line 258 is inside the else branch.
AttrStep(attrs, parts) ==
    IF Len(parts) = 2 THEN attrs
    ELSE Append(attrs, [header |-> parts[1], desc |-> parts[2], units |-> parts[3]])

\* line 257: a three-name unpacking of anything but three parts raises
UnpackRaises(parts) == Len(parts) # 2 /\ Len(parts) # 3

\* lines 240-258: one iteration of the loop over hdr
HdrLoop ==
    /\ hpc = "loop"
    /\ n < Len(hdr)
    /\ LET line == hdr[n + 1]
           parts == StripAll(Split(line, "-"))
       IN  IF n = 0 THEN
               /\ n' = n + 1
               /\ UNCHANGED <<headers, attributes, hpc, hexc>>
           ELSE IF n = 1 THEN
               /\ headers' = [bound |-> TRUE, val |-> StripAll(Split(line, ","))]
               /\ n' = n + 1
               /\ UNCHANGED <<attributes, hpc, hexc>>
           ELSE IF Len(line) = 0 THEN
               /\ n' = n + 1
               /\ UNCHANGED <<headers, attributes, hpc, hexc>>
           ELSE IF UnpackRaises(parts) THEN
               /\ hpc' = "raised"
               /\ hexc' = "ValueError"
               /\ UNCHANGED <<n, headers, attributes>>
           ELSE
               /\ attributes' = AttrStep(attributes, parts)
               /\ n' = n + 1
               /\ UNCHANGED <<headers, hpc, hexc>>
    /\ UNCHANGED <<file, hdr, annotated, notH>>

\* line 261: `headers` is a local that only the second line binds
HdrReturn ==
    /\ hpc = "loop"
    /\ n = Len(hdr)
    /\ IF headers.bound
       THEN hpc' = "returned" /\ hexc' = ""
       ELSE hpc' = "raised" /\ hexc' = "UnboundLocalError"
    /\ UNCHANGED <<file, hdr, n, headers, attributes, annotated, notH>>

\* lines 282-292: attrs for each attribute whose column exists; a missing
\* column raises KeyError inside the try and is passed over.
Annotate(attrs) ==
    LET hit == {i \in DOMAIN attrs : attrs[i].header \in DataColumns}
        last(c) == CHOOSE i \in hit : attrs[i].header = c /\
                        \A j \in hit : attrs[j].header = c => j <= i
    IN  [c \in {attrs[i].header : i \in hit} |->
            [description |-> attrs[last(c)].desc, units |-> attrs[last(c)].units]]

AddAttributes ==
    /\ hpc = "returned"
    /\ annotated' = Annotate(attributes)
    /\ hpc' = "annotated"
    /\ UNCHANGED <<file, hdr, n, headers, attributes, hexc, notH>>

HNext == HdrOpen \/ HdrLoop \/ HdrReturn \/ AddAttributes

(***************************************************************************)
(* Buoy.parse_data (lines 397-444).  A line is the sequence of its          *)
(* whitespace-separated tokens; token <<i, j, k>> is the k-th token of line *)
(* j of file i.  A row has one cell per column name.                        *)
(***************************************************************************)
NFields == 14
MaxFiles == 2
MaxLines == 2

NaNTok == <<0, 0, 0>>

\* the token counts a line of an input file is drawn with (0: a blank line)
TokenCounts == {0, NFields - 1, NFields, NFields + 1}

MkLine(i, j, cnt) == [k \in 1..cnt |-> <<i, j, k>>]
MkFile(i, counts) == [j \in DOMAIN counts |-> MkLine(i, j, counts[j])]

BInit ==
    /\ \E shape \in SeqsUpTo(SeqsUpTo(TokenCounts, MaxLines), MaxFiles) :
           filepaths = [i \in DOMAIN shape |-> MkFile(i, shape[i])]
    /\ fileIdx = 0
    /\ file_df_list = <<>>
    /\ metbk = <<>>
    /\ bpc = "read"

BIdle ==
    /\ filepaths = <<>>
    /\ fileIdx = 0
    /\ file_df_list = <<>>
    /\ metbk = <<>>
    /\ bpc = "idle"

\* read_csv(names=columns, on_bad_lines='skip'): a bad line is one with too
\* many fields; a blank line is skipped; a short line is padded with NaN.
KeptLine(line) == Len(line) > 0 /\ Len(line) <= NFields

PadRow(line) == [k \in 1..NFields |-> IF k <= Len(line) THEN line[k] ELSE NaNTok]

ReadCsvBuoy(f) ==
    LET kept == SelectSeq(f, KeptLine)
    IN  [j \in DOMAIN kept |-> PadRow(kept[j])]

RECURSIVE Concat(_)
Concat(tables) ==
    IF tables = <<>> THEN <<>> ELSE Head(tables) \o Concat(Tail(tables))

\* lines 404-406: one iteration of the loop over filepaths
BuoyReadFile ==
    /\ bpc = "read"
    /\ fileIdx < Len(filepaths)
    /\ file_df_list' = Append(file_df_list, ReadCsvBuoy(filepaths[fileIdx + 1]))
    /\ fileIdx' = fileIdx + 1
    /\ UNCHANGED <<filepaths, metbk, bpc, notB>>

\* lines 439-444: pd.concat raises on an empty list of tables
BuoyConcat ==
    /\ bpc = "read"
    /\ fileIdx = Len(filepaths)
    /\ IF file_df_list = <<>>
       THEN bpc' = "raised" /\ UNCHANGED metbk
       ELSE bpc' = "returned" /\ metbk' = Concat(file_df_list)
    /\ UNCHANGED <<filepaths, fileIdx, file_df_list, notB>>

BNext == BuoyReadFile \/ BuoyConcat

(***************************************************************************)
(* Ship.process_data (lines 295-382).  A table maps each column name to a   *)
(* column [dtype, cells]; a cell is [k, s, v]: a string (k = "str", s), a   *)
(* float (k = "num", v in hundredths), the not-a-number float (k = "nan"),  *)
(* a timestamp (k = "time", s) or the not-a-time value (k = "nat").         *)
(***************************************************************************)
MaxRows == 2

Str(s)  == [k |-> "str", s |-> s, v |-> 0]
Num(v)  == [k |-> "num", s |-> "", v |-> v]
NaN     == [k |-> "nan", s |-> "", v |-> 0]
Time(s) == [k |-> "time", s |-> s, v |-> 0]
NaT     == [k |-> "nat", s |-> "", v |-> 0]

\* the decimal literals of the model and the floats they parse to (hundredths)
FloatOf(s) ==
    CASE s = "1.0" -> 100
      [] s = "18.0" -> 1800
      [] s = "20.0" -> 2000
      [] s = "22.0" -> 2200
      [] s = "360.0" -> 36000
      [] s = "20230101" -> 2023010100
      [] s = "120000" -> 12000000

IsFloatText(s) == s \in {"1.0", "18.0", "20.0", "22.0", "360.0", "20230101", "120000"}

\* the timestamps pd.to_datetime parses
IsTimeText(s) == s \in {"2023/01/01 00:00:00"}

DateTimeColumns == {"DATE_GMT", "TIME_GMT"}

RawColumns ==
    {"DATE_GMT", "TIME_GMT", "WXTS_Ta", "WXTP_Ta", "WXTP_Pa", "WXTS_Pa",
     "BAROM_P", "BAROM_S", "WXTP_Ri", "WXTS_Ri", "WXTP_Rc", "WXTS_Rc",
     "WXTP_Dm", "WXTS_Dm", "WXTP_Sm", "WXTS_Sm", "WXTS_TS", "WXTP_TS",
     "WXTS_TD", "WXTP_TD", "WXTP_Ua", "WXTS_Ua", "RAD_SW", "RAD_LW",
     "SBE45S", "SBE48T", "PAR", "FLR", "Dec_LON", "Dec_LAT", "SPD", "SOG",
     "COG", "SSVdslog", "HDT", "FLOW", "Depth12", "Depth35", "EM122"}

\* the twinned sensors, as lines 332, 337, 341, 346, 347 and 351 name them
Pairs ==
    {[canon |-> "atmp", a |-> "WXTS_Ta", b |-> "WXTP_Ta"],
     [canon |-> "bpr",  a |-> "WXTP_Pa", b |-> "WXTS_Pa"],
     [canon |-> "prc",  a |-> "WXTP_Ri", b |-> "WXTS_Ri"],
     [canon |-> "wspd", a |-> "WXTS_TS", b |-> "WXTP_TS"],
     [canon |-> "wdir", a |-> "WXTS_TD", b |-> "WXTP_TD"],
     [canon |-> "rhr",  a |-> "WXTP_Ua", b |-> "WXTS_Ua"]}

\* the cell texts the twinned columns of the raw files are drawn from
PairTextA == {"20.0", "360.0", " NAN", "abc"}
PairTextB == {"22.0", "18.0", "NAN"}
DateTexts == {"2023/01/01", "20230101", "abc"}
TimeTexts == {"00:00:00", "120000"}

\* Ship.parse_data, line 200: read_csv makes a column of floats when every
\* cell parses as a number and a column of strings (object) otherwise.
ReadCsvColumn(texts) ==
    IF \A i \in DOMAIN texts : IsFloatText(texts[i])
    THEN [dtype |-> "float64", cells |-> [i \in DOMAIN texts |-> Num(FloatOf(texts[i]))]]
    ELSE [dtype |-> "object", cells |-> [i \in DOMAIN texts |-> Str(texts[i])]]

Const(nr, s) == [i \in 1..nr |-> s]

\* a raw table: `textOf` gives the texts of the columns that vary
RawTable(cols, nr, textOf) ==
    [c \in cols |->
        ReadCsvColumn(IF c \in DOMAIN textOf THEN textOf[c]
                      ELSE IF c = "DATE_GMT" THEN Const(nr, "2023/01/01")
                      ELSE IF c = "TIME_GMT" THEN Const(nr, "00:00:00")
                      ELSE Const(nr, "1.0"))]

\* a regular table: every raw column present, one twinned pair varying
RegularTable(p, ta, tb) ==
    RawTable(RawColumns, Len(ta), (p.a :> ta) @@ (p.b :> tb))

\* an irregular table: columns absent or extra, odd date and time cells
IrregularTable(absent, extra, d, t) ==
    RawTable((RawColumns \ absent) \cup extra, 1,
             ("DATE_GMT" :> <<d>>) @@ ("TIME_GMT" :> <<t>>))

SInit ==
    /\ \/ \E nr \in 1..MaxRows, p \in Pairs :
              \E ta \in [1..nr -> PairTextA], tb \in [1..nr -> PairTextB] :
                  df0 = RegularTable(p, ta, tb)
       \/ \E absent \in {{}} \cup {{c} : c \in RawColumns}, extra \in {{}, {"EXTRA"}} :
              \E d \in DateTexts, t \in TimeTexts :
                  df0 = IrregularTable(absent, extra, d, t)
    /\ df = df0
    /\ spc = "replace"
    /\ sexc = ""

SIdle ==
    /\ df0 = <<>>
    /\ df = <<>>
    /\ spc = "idle"
    /\ sexc = ""

\* DataFrame.replace(from, to) on whole cells
ReplaceCell(c, from, to) == IF c = from THEN to ELSE c

Replace(t, from, to) ==
    [c \in DOMAIN t |->
        [t[c] EXCEPT !.cells = [i \in DOMAIN @ |-> ReplaceCell(@[i], from, to)]]]

\* lines 307-309 without line 307
NormalizeNoSpace(t) ==
    Replace(Replace(t, Str("NAN"), Str("NaN")), Str("NaN"), NaN)

\* lines 307-309
NormalizeSentinels(t) ==
    Replace(Replace(Replace(t, Str(" NAN"), Str("NaN")),
                    Str("NAN"), Str("NaN")),
            Str("NaN"), NaN)

\* pd.to_numeric(errors='coerce') on one cell
ToNumeric(c) ==
    IF c.k = "str"
    THEN IF IsFloatText(c.s) THEN Num(FloatOf(c.s)) ELSE NaN
    ELSE c

\* line 315
ObjectColumns(t) == {c \in DOMAIN t : t[c].dtype = "object"}

\* line 323
Coerce(t, cols) ==
    [c \in DOMAIN t |->
        IF c \in cols
        THEN [dtype |-> "float64", cells |-> [i \in DOMAIN t[c].cells |-> ToNumeric(t[c].cells[i])]]
        ELSE t[c]]

\* line 326: str + " " + str, NaN when either side is missing
StampText(d, t) ==
    IF d.k = "str" /\ t.k = "str" THEN Str(d.s \o " " \o t.s) ELSE NaN

StampParses(c) == c.k = "nan" \/ IsTimeText(c.s)

ToDatetime(c) == IF c.k = "nan" THEN NaT ELSE Time(c.s)

Has(t, cols) == cols \subseteq DOMAIN t

DropCols(t, cols) == [c \in DOMAIN t \ cols |-> t[c]]

WithCol(t, name, col) ==
    [c \in DOMAIN t \cup {name} |-> IF c = name THEN col ELSE t[c]]

\* DataFrame.mean(axis=1, skipna=False): any missing input gives NaN
MeanPropagateNa(x, y) ==
    IF x.k = "num" /\ y.k = "num" THEN Num((x.v + y.v) \div 2) ELSE NaN

\* DataFrame.mean(axis=1) of two cells: the sum of the present values over
\* their count, NaN when none is present
MeanSkipNa(x, y) ==
    LET present == SelectSeq(<<x, y>>, LAMBDA c : c.k = "num")
        total == IF Len(present) = 0 THEN 0
                 ELSE IF Len(present) = 1 THEN present[1].v
                 ELSE present[1].v + present[2].v
    IN  IF Len(present) = 0 THEN NaN ELSE Num(total \div Len(present))

MeanCol(t, a, b) ==
    [dtype |-> "float64",
     cells |-> [i \in DOMAIN t[a].cells |-> MeanSkipNa(t[a].cells[i], t[b].cells[i])]]

Raise(exc) ==
    /\ spc' = "raised"
    /\ sexc' = exc
    /\ UNCHANGED <<df0, df, notS>>

Goto(t, next) ==
    /\ df' = t
    /\ spc' = next
    /\ UNCHANGED <<df0, sexc, notS>>

\* lines 307-312
Normalize ==
    /\ spc = "replace"
    /\ Goto(NormalizeSentinels(df), "coerce")

\* lines 315-323: list.remove raises when the name is not in the list
CoerceNumeric ==
    /\ spc = "coerce"
    /\ IF DateTimeColumns \subseteq ObjectColumns(df)
       THEN Goto(Coerce(df, ObjectColumns(df) \ DateTimeColumns), "datetime")
       ELSE Raise("ValueError")

\* lines 326-327
MakeDatetime ==
    /\ spc = "datetime"
    /\ LET stamps == [i \in DOMAIN df["DATE_GMT"].cells |->
                         StampText(df["DATE_GMT"].cells[i], df["TIME_GMT"].cells[i])]
       IN  IF \A i \in DOMAIN stamps : StampParses(stamps[i])
           THEN Goto(DropCols(WithCol(df, "datetime",
                         [dtype |-> "datetime64",
                          cells |-> [i \in DOMAIN stamps |-> ToDatetime(stamps[i])]]),
                     DateTimeColumns), "atmp")
           ELSE Raise("ValueError")

\* averaging columns a and b into `name`, then dropping `drops`; a missing
\* column raises KeyError at the selection or at the drop
Fuse(name, a, b, drops, next) ==
    IF Has(df, {a, b}) /\ Has(df, drops)
    THEN Goto(DropCols(WithCol(df, name, MeanCol(df, a, b)), drops), next)
    ELSE Raise("KeyError")

AtmpDrops == {"WXTS_Ta", "WXTP_Ta"}
BprDropsNoBarom == {"WXTP_Pa", "WXTS_Pa"}
BprDrops == {"WXTP_Pa", "WXTS_Pa", "BAROM_P", "BAROM_S"}
PrcDrops == {"WXTP_Ri", "WXTS_Ri", "WXTP_Rc", "WXTS_Rc"}
RelWindDrops == {"WXTP_Dm", "WXTS_Dm", "WXTP_Sm", "WXTS_Sm"}
TrueWindDrops == {"WXTS_TS", "WXTP_TS", "WXTS_TD", "WXTP_TD"}
RhrDrops == {"WXTP_Ua", "WXTS_Ua"}
SurfaceDrops == {"SBE45S", "SBE48T", "PAR", "FLR"}
ShipDrops ==
    {"Dec_LON", "Dec_LAT", "SPD", "SOG", "COG", "SSVdslog", "HDT", "FLOW",
     "Depth12", "Depth35", "EM122"}

\* lines 332-333
FuseAtmp == spc = "atmp" /\ Fuse("atmp", "WXTS_Ta", "WXTP_Ta", AtmpDrops, "bpr")

\* lines 337-338
FuseBpr == spc = "bpr" /\ Fuse("bpr", "WXTP_Pa", "WXTS_Pa", BprDrops, "prc")

\* lines 341-342
FusePrc == spc = "prc" /\ Fuse("prc", "WXTP_Ri", "WXTS_Ri", PrcDrops, "wind")

\* lines 345-348
FuseWind ==
    /\ spc = "wind"
    /\ IF Has(df, RelWindDrops) /\ Has(df, TrueWindDrops)
       THEN Goto(DropCols(
                    WithCol(WithCol(DropCols(df, RelWindDrops),
                                    "wspd", MeanCol(df, "WXTS_TS", "WXTP_TS")),
                            "wdir", MeanCol(df, "WXTS_TD", "WXTP_TD")),
                    TrueWindDrops), "rhr")
       ELSE Raise("KeyError")

\* lines 351-352
FuseRhr == spc = "rhr" /\ Fuse("rhr", "WXTP_Ua", "WXTS_Ua", RhrDrops, "swr")

\* copying column `from` to `to` for each pair of `renames`, then dropping
Renames(t, renames) ==
    [c \in DOMAIN t \cup {r[2] : r \in renames} |->
        IF \E r \in renames : r[2] = c
        THEN t[(CHOOSE r \in renames : r[2] = c)[1]]
        ELSE t[c]]

Rename(renames, drops, next) ==
    IF Has(df, {r[1] : r \in renames}) /\ Has(df, drops)
    THEN Goto(DropCols(Renames(df, renames), drops), next)
    ELSE Raise("KeyError")

\* lines 355-356
RenameSwr == spc = "swr" /\ Rename({<<"RAD_SW", "swr">>}, {"RAD_SW"}, "lwr")

\* lines 359-360
RenameLwr == spc = "lwr" /\ Rename({<<"RAD_LW", "lwr">>}, {"RAD_LW"}, "surface")

\* lines 363-367
RenameSurface ==
    /\ spc = "surface"
    /\ Rename({<<"SBE45S", "sal">>, <<"SBE48T", "sst">>, <<"PAR", "par">>,
               <<"FLR", "flr">>}, SurfaceDrops, "shipdata")

\* lines 370-382
RenameShipData ==
    /\ spc = "shipdata"
    /\ Rename({<<"Dec_LON", "lon">>, <<"Dec_LAT", "lat">>, <<"SPD", "spd">>,
               <<"SOG", "sog">>, <<"COG", "cog">>, <<"HDT", "hdt">>},
              ShipDrops, "returned")

SNext ==
    \/ Normalize \/ CoerceNumeric \/ MakeDatetime
    \/ FuseAtmp \/ FuseBpr \/ FusePrc \/ FuseWind \/ FuseRhr
    \/ RenameSwr \/ RenameLwr \/ RenameSurface \/ RenameShipData

(***************************************************************************)
(* md2vect (lines 23-54) and vect2md (lines 57-88).  Directions are whole   *)
(* degrees on the eight-point compass; a float is sign and magnitude,       *)
(* [neg, mag], so that the two zeros of IEEE arithmetic are told apart.     *)
(* Speeds are in m/s, components and output speeds in thousandths of m/s.   *)
(***************************************************************************)
MaxSpeed == 3
MaxEighths == 12

Pos(m) == [neg |-> FALSE, mag |-> m]
Neg(m) == [neg |-> TRUE, mag |-> m]

\* np.sin(np.deg2rad(d)) and np.cos(np.deg2rad(d)) in thousandths, with the
\* sign the float result has where the exact value is zero
Sin(d) ==
    CASE d = 0 -> Pos(0)     [] d = 45 -> Pos(707)   [] d = 90 -> Pos(1000)
      [] d = 135 -> Pos(707) [] d = 180 -> Pos(0)    [] d = 225 -> Neg(707)
      [] d = 270 -> Neg(1000) [] d = 315 -> Neg(707)

Cos(d) ==
    CASE d = 0 -> Pos(1000)  [] d = 45 -> Pos(707)   [] d = 90 -> Pos(0)
      [] d = 135 -> Neg(707) [] d = 180 -> Neg(1000) [] d = 225 -> Neg(707)
      [] d = 270 -> Neg(0)   [] d = 315 -> Pos(707)

\* a non-negative speed times a float
Scale(speed, f) == [neg |-> f.neg, mag |-> speed * f.mag]

\* np.sqrt to the nearest thousandth
Sqrt(x) ==
    LET r == CHOOSE r \in 0..(1415 * (MaxSpeed + 1)) : r * r <= x /\ (r + 1) * (r + 1) > x
    IN  IF x - r * r > r THEN r + 1 ELSE r

\* np.degrees(np.arctan2(y, x)) to the nearest compass point, in
\* [-180, 180]; tan(22.5 deg) = 0.414; the zeros follow IEEE 754
Atan2Deg(y, x) ==
    LET a == IF 1000 * y.mag <= 414 * x.mag THEN 0
             ELSE IF 1000 * x.mag < 414 * y.mag THEN 90
             ELSE 45
        u == IF x.neg THEN 180 - a ELSE a
    IN  IF y.neg THEN 0 - u ELSE u

\* lines 83 and 86 with the arguments of arctan2 exchanged
DirectionSwapped(north, east) == Atan2Deg(east, north) % 360

\* lines 83 and 86
Direction(north, east) == Atan2Deg(north, east) % 360

\* line 80
Speed(north, east) == Sqrt(north.mag * north.mag + east.mag * east.mag)

WInit ==
    /\ wspd0 \in 0..MaxSpeed
    /\ wdir0 \in {45 * k : k \in (0 - MaxEighths)..MaxEighths}
    /\ vx = Pos(0)
    /\ vy = Pos(0)
    /\ wspd = 0
    /\ wdir = 0
    /\ wpc = "md2vect"

WIdle ==
    /\ wspd0 = 0
    /\ wdir0 = 0
    /\ vx = Pos(0)
    /\ vy = Pos(0)
    /\ wspd = 0
    /\ wdir = 0
    /\ wpc = "idle"

\* lines 41-54
Md2vect ==
    /\ wpc = "md2vect"
    /\ LET wrapped == wdir0 % 360
       IN  /\ vx' = Scale(wspd0, Sin(wrapped))
           /\ vy' = Scale(wspd0, Cos(wrapped))
    /\ wpc' = "vect2md"
    /\ UNCHANGED <<wspd0, wdir0, wspd, wdir, notW>>

\* lines 76-88
Vect2md ==
    /\ wpc = "vect2md"
    /\ wspd' = Speed(vx, vy)
    /\ wdir' = Direction(vx, vy)
    /\ wpc' = "done"
    /\ UNCHANGED <<wspd0, wdir0, vx, vy, notW>>

WNext == Md2vect \/ Vect2md

(***************************************************************************)
(* rh2q (lines 103-139).  Temperatures in deg C, pressures in mb, relative  *)
(* humidity in percent; vapor pressures in thousandths of a mb and the      *)
(* specific humidity in hundredths of a g/kg.                               *)
(***************************************************************************)
Temperatures == {0, 10, 20, 30}
Pressures == {900, 1000, 1013}
Humidities == {10, 50, 100}

\* 6.1121*exp(17.502*T/(T+240.97)) in thousandths of a mb
BuckExp(T) ==
    CASE T = 0 -> 6112 [] T = 10 -> 12276 [] T = 20 -> 23373 [] T = 30 -> 42435

\* line 125: times (1.0007 + 3.46E-6*bpr)
Buck(T, P) == (BuckExp(T) * (10007 + (346 * P) \div 10000)) \div 10000

\* line 128 with the flag inverted: (1.0 - 0.02*(1 - sflag))*es
ReduceInverted(x, flag) == ((100 - 2 * (1 - flag)) * x) \div 100

\* line 128: (1.0 - 0.02*sflag)*es
Reduce(x, flag) == ((100 - 2 * flag) * x) \div 100

\* lines 131-133
Vapor(x, rh, flag) == IF flag = 1 THEN x ELSE (x * rh) \div 100

\* lines 136-137
Humidity(x, P) == (6220 * x) \div ((P * 1000 - (378 * x) \div 1000) \div 10)

RInit ==
    /\ atmp \in Temperatures
    /\ bpr \in Pressures
    /\ hrh \in Humidities
    /\ sflag \in {0, 1}
    /\ esBuck = 0
    /\ es = 0
    /\ e = 0
    /\ q = 0
    /\ rpc = "buck"

RIdle ==
    /\ atmp = 0
    /\ bpr = 0
    /\ hrh = 0
    /\ sflag = 0
    /\ esBuck = 0
    /\ es = 0
    /\ e = 0
    /\ q = 0
    /\ rpc = "idle"

RhBuck ==
    /\ rpc = "buck"
    /\ esBuck' = Buck(atmp, bpr)
    /\ rpc' = "reduce"
    /\ UNCHANGED <<atmp, bpr, hrh, sflag, es, e, q, notR>>

RhReduce ==
    /\ rpc = "reduce"
    /\ es' = Reduce(esBuck, sflag)
    /\ rpc' = "vapor"
    /\ UNCHANGED <<atmp, bpr, hrh, sflag, esBuck, e, q, notR>>

RhVapor ==
    /\ rpc = "vapor"
    /\ e' = Vapor(es, hrh, sflag)
    /\ rpc' = "humidity"
    /\ UNCHANGED <<atmp, bpr, hrh, sflag, esBuck, es, q, notR>>

RhHumidity ==
    /\ rpc = "humidity"
    /\ q' = Humidity(e, bpr)
    /\ rpc' = "done"
    /\ UNCHANGED <<atmp, bpr, hrh, sflag, esBuck, es, e, notR>>

RNext == RhBuck \/ RhReduce \/ RhVapor \/ RhHumidity

(***************************************************************************)
(* The specifications: one operation runs, the others stay idle.            *)
(***************************************************************************)
InitHdr  == HInit /\ BIdle /\ SIdle /\ WIdle /\ RIdle
InitBuoy == HIdle /\ BInit /\ SIdle /\ WIdle /\ RIdle
InitShip == HIdle /\ BIdle /\ SInit /\ WIdle /\ RIdle
InitWind == HIdle /\ BIdle /\ SIdle /\ WInit /\ RIdle
InitRh   == HIdle /\ BIdle /\ SIdle /\ WIdle /\ RInit

Init == InitHdr \/ InitBuoy \/ InitShip \/ InitWind \/ InitRh
Next == HNext \/ BNext \/ SNext \/ WNext \/ RNext

SpecHdr  == InitHdr /\ [][HNext]_vars
SpecBuoy == InitBuoy /\ [][BNext]_vars
SpecShip == InitShip /\ [][SNext]_vars
SpecWind == InitWind /\ [][WNext]_vars
SpecRh   == InitRh /\ [][RNext]_vars
Spec     == Init /\ [][Next]_vars

(***************************************************************************)
(* Properties of Ship.parse_headers (checked under SpecHdr).                *)
(***************************************************************************)
HdrDone == hpc \in {"returned", "annotated"}

PartCount(line) == Len(Split(line, "-"))

WellFormedAttr(line) == PartCount(line) \in {2, 3}

\* the record the header format gives an attribute line
RecordOf(line) ==
    LET parts == StripAll(Split(line, "-"))
    IN  [header |-> parts[1], desc |-> parts[2],
         units |-> IF Len(parts) = 3 THEN parts[3] ELSE <<>>]

RecordsOf(lines) == [i \in DOMAIN lines |-> RecordOf(lines[i])]

NonEmptyLines == SelectSeq(file, NonEmpty)

AttrLines == SubSeq(NonEmptyLines, 3, Len(NonEmptyLines))

\* C1: on a header file whose non-empty lines are a title, the column names
\* and attribute lines of two or three parts, parse_headers returns the
\* column names in order and one attribute record per attribute line, in
\* order, a two-part line giving a record with empty units.
C1_RecordPerAttributeLine ==
    (HdrDone /\ \A i \in DOMAIN AttrLines : WellFormedAttr(AttrLines[i]))
        => /\ headers.val = StripAll(Split(NonEmptyLines[2], ","))
           /\ attributes = RecordsOf(AttrLines)

\* C7: an attribute line of neither two nor three parts is dropped without
\* an error, and the records of the other lines are returned.
C7_MalformedLineDropped ==
    (Len(NonEmptyLines) >= 2 /\ \E i \in DOMAIN AttrLines : ~WellFormedAttr(AttrLines[i]))
        => /\ hpc # "raised"
           /\ HdrDone => attributes = RecordsOf(SelectSeq(AttrLines, WellFormedAttr))

(***************************************************************************)
(* Properties of Buoy.parse_data (checked under SpecBuoy).                  *)
(***************************************************************************)
FullLine(line) == Len(line) = NFields

FullLinesOf(files) == Concat([i \in DOMAIN files |-> SelectSeq(files[i], FullLine)])

\* C2: parse_data returns one row for every line of exactly 14 tokens and
\* none for a line of any other token count, in file order then line order,
\* and a line of another token count never aborts the parse.
C2_RowPerFourteenTokenLine ==
    /\ filepaths # <<>> => bpc # "raised"
    /\ bpc = "returned" =>
           /\ Len(metbk) = Len(FullLinesOf(filepaths))
           /\ \A r \in DOMAIN metbk :
                  \A k \in 1..NFields : metbk[r][k] = FullLinesOf(filepaths)[r][k]

(***************************************************************************)
(* Properties of Ship.process_data (checked under SpecShip).                *)
(***************************************************************************)
FusedColumns == {p.canon : p \in Pairs}

\* the number a cell of the raw table stands for
NumericOf(c) ==
    IF c.k = "num" THEN c
    ELSE IF c.k = "str" /\ IsFloatText(c.s) THEN Num(FloatOf(c.s))
    ELSE NaN

\* the mean of two sensor values, missing ones skipped
ExpectedFused(x, y) ==
    CASE x.k = "num" /\ y.k = "num" -> Num((x.v + y.v) \div 2)
      [] x.k = "num" /\ y.k # "num" -> x
      [] x.k # "num" /\ y.k = "num" -> y
      [] OTHER -> NaN

\* C3: in the returned table, each fused column holds, row by row, the mean
\* of its two twinned sensor values with not-a-number inputs skipped: both
\* present gives the average, one present gives it, none gives not-a-number.
C3_FusedIsNanSkippingMean ==
    spc = "returned" =>
        \A p \in Pairs :
            \A i \in DOMAIN df0[p.a].cells :
                df[p.canon].cells[i] =
                    ExpectedFused(NumericOf(df0[p.a].cells[i]),
                                  NumericOf(df0[p.b].cells[i]))

\* WXTS_Ta = [20, NaN], WXTP_Ta = [22, 18] gives atmp = [21, 18]
C3_Witness ==
    /\ spc = "returned"
    /\ df0["WXTS_Ta"].cells = <<Str("20.0"), Str(" NAN")>>
    /\ df0["WXTP_Ta"].cells = <<Num(2200), Num(1800)>>
    /\ df["atmp"].cells = <<Num(2100), Num(1800)>>

Sentinels == {Str(" NAN"), Str("NAN")}

NoSentinelLeft(t) ==
    \A c \in DOMAIN t : \A i \in DOMAIN t[c].cells : t[c].cells[i] \notin Sentinels

\* what a raw cell is after normalization and coercion
ExpectedNumeric(c) ==
    IF c \in Sentinels THEN NaN ELSE NumericOf(c)

Coerced ==
    \A c \in (DOMAIN df \cap DOMAIN df0) \ DateTimeColumns :
        /\ df[c].dtype = "float64"
        /\ \A i \in DOMAIN df0[c].cells : df[c].cells[i] = ExpectedNumeric(df0[c].cells[i])

\* C4: when process_data comes to coerce columns to numeric no cell holds
\* " NAN" or "NAN" any more (both are the one not-a-number value by then), so
\* each sentinel cell ends as not-a-number and each numeric text as its
\* number; coercion is done before the datetime column is made, and the
\* datetime column before any fused column.
C4_SentinelsBeforeCoercion ==
    /\ spc = "coerce" => NoSentinelLeft(df)
    /\ spc \notin {"idle", "replace", "coerce", "raised"} => Coerced
    /\ "datetime" \in DOMAIN df => Coerced /\ ObjectColumns(df) = {}
    /\ FusedColumns \cap DOMAIN df # {} =>
           "datetime" \in DOMAIN df /\ DateTimeColumns \cap DOMAIN df = {}

\* a row holding both sentinels has been coerced to not-a-number values,
\* next to a numeric text coerced to its number
C4_Witness ==
    /\ spc = "datetime"
    /\ "WXTS_Ta" \in DOMAIN df0
    /\ df0["WXTS_Ta"].cells = <<Str("20.0"), Str(" NAN")>>
    /\ df0["WXTP_Ta"].cells = <<Str("22.0"), Str("NAN")>>
    /\ df["WXTS_Ta"].cells = <<Num(2000), NaN>>
    /\ df["WXTP_Ta"].cells = <<Num(2200), NaN>>

\* C6: on a readable input no pipeline operation raises, whatever columns
\* are absent and however the date and time columns are typed.
C6_NoOperationRaises == spc # "raised"

\* the raw columns the canonical table must not hold
SupersededColumns ==
    {"WXTS_Ta", "WXTP_Ta", "WXTP_Pa", "WXTS_Pa", "BAROM_P", "BAROM_S",
     "WXTP_Ri", "WXTS_Ri", "WXTP_Rc", "WXTS_Rc", "WXTP_Dm", "WXTS_Dm",
     "WXTP_Sm", "WXTS_Sm", "WXTS_TS", "WXTP_TS", "WXTS_TD", "WXTP_TD",
     "WXTP_Ua", "WXTS_Ua", "RAD_SW", "RAD_LW", "SBE45S", "SBE48T", "PAR",
     "FLR", "Dec_LON", "Dec_LAT", "SPD", "SOG", "COG", "HDT",
     "DATE_GMT", "TIME_GMT"}

\* C8: the table process_data returns has a column for each fused quantity
\* (atmp, bpr, prc, wspd, wdir, rhr), one value per row, and none of the raw
\* sensor columns they replace, no renamed raw column and no DATE_GMT or
\* TIME_GMT.
C8_CanonicalColumns ==
    spc = "returned" =>
        /\ \A c \in FusedColumns :
               c \in DOMAIN df /\ DOMAIN df[c].cells = DOMAIN df0["WXTS_Ta"].cells
        /\ DOMAIN df \cap SupersededColumns = {}

\* a table with an extra column has been processed to the end
C8_Witness ==
    /\ spc = "returned"
    /\ "EXTRA" \in DOMAIN df
    /\ RawColumns \subseteq DOMAIN df0

\* C9: every defined wind direction of the returned table lies in [0, 360).
C9_DirectionInRange ==
    spc = "returned" =>
        \A i \in DOMAIN df["wdir"].cells :
            df["wdir"].cells[i].k = "num" =>
                0 <= df["wdir"].cells[i].v /\ df["wdir"].cells[i].v < 36000

(***************************************************************************)
(* Properties of md2vect and vect2md (checked under SpecWind).              *)
(***************************************************************************)
Abs(x) == IF x < 0 THEN 0 - x ELSE x

\* the outputs are the inputs, the speed to one part in a thousand
RoundTrip ==
    /\ Abs(wspd - 1000 * wspd0) <= wspd0
    /\ wdir = wdir0 % 360

\* C5 as stated: vect2md(md2vect(speed, d)) = (speed, d mod 360) for every
\* speed >= 0, zero included.
C5_RoundTripAnySpeed == wpc = "done" => RoundTrip

\* C5 as amended: vect2md(md2vect(speed, d)) = (speed, d mod 360) for every
\* speed > 0; at speed 0 the speed is returned and the direction is 0 or 180
\* whatever d is.
C5_RoundTripPositiveSpeed ==
    wpc = "done" =>
        /\ wspd0 > 0 => RoundTrip
        /\ wspd0 = 0 => wspd = 0 /\ wdir \in {0, 180}

\* a direction outside [0, 360) has made the round trip at a positive speed
C5_Witness ==
    /\ wpc = "done"
    /\ wspd0 > 0
    /\ wdir0 < 0
    /\ wdir = wdir0 + 360

(***************************************************************************)
(* Properties of rh2q (checked under SpecRh).                               *)
(***************************************************************************)
Reduced(x) == (98 * x) \div 100

\* C10 as stated: es is reduced by 2% exactly when the sea-surface flag is
\* not set; with the flag set es is left as it is and e = es.
C10_ReducedWhenFlagClear ==
    rpc = "done" =>
        /\ sflag = 0 => es = Reduced(esBuck)
        /\ sflag = 1 => es = esBuck /\ e = es

\* C10 as amended: es is reduced by 2% exactly when the sea-surface flag is
\* set, and then e = es whatever the relative humidity; with the flag clear
\* es is left as it is and e = es*hrh/100.
C10_ReducedWhenFlagSet ==
    rpc = "done" =>
        /\ sflag = 1 => es = Reduced(esBuck) /\ e = es
        /\ sflag = 0 => es = esBuck /\ e = (es * hrh) \div 100

\* rh2q has run at the sea surface with a relative humidity below 100
C10_Witness ==
    /\ rpc = "done"
    /\ sflag = 1
    /\ hrh = 50
    /\ es < esBuck
    /\ e = es

=============================================================================
